---- MODULE Spec2Model ----
(***************************************************************************)
(* zet: create a timestamped zettel under the configured content path,     *)
(* open it in an editor and, optionally, commit and push it.               *)
(*                                                                         *)
(* Two builds of the command are modelled, selected by impl:               *)
(*   "flag"   - cmd/root.go with the --push flag and internal/git          *)
(*              (src/cmd/root.go, src/unnamed/part_000)                    *)
(*   "prompt" - the single-file command that asks for a confirmation       *)
(*              (src/unnamed/part_001)                                     *)
(* Strings are sequences of one-character strings, so that formatting,     *)
(* trimming, lower-casing and substring search are computed.               *)
(***************************************************************************)
EXTENDS Integers, Sequences, FiniteSets, TLC

\* ------------------------------------------------------------------ bounds

\* The clock reads 2024-01-01 00:00:00 UTC plus 0..MaxSecond seconds.
MaxSecond == 1

\* Lines available on standard input before end of file.
MaxPrompts == 2

\* ----------------------------------------------------------------- strings

Digits == <<"0", "1", "2", "3", "4", "5", "6", "7", "8", "9">>

RECURSIVE Pad(_, _)
\* n printed in decimal, zero-padded (and cut) to w digits
Pad(n, w) == IF w = 0 THEN <<>> ELSE Append(Pad(n \div 10, w - 1), Digits[(n % 10) + 1])

\* strings.Contains(s, sub)
Contains(s, sub) ==
    \E i \in 0..(Len(s) - Len(sub)) : SubSeq(s, i + 1, i + Len(sub)) = sub

Space == {" ", "\n", "\t"}

RECURSIVE TrimLeft(_)
TrimLeft(s) == IF s # <<>> /\ Head(s) \in Space THEN TrimLeft(Tail(s)) ELSE s

RECURSIVE TrimRight(_)
TrimRight(s) ==
    IF s # <<>> /\ s[Len(s)] \in Space THEN TrimRight(SubSeq(s, 1, Len(s) - 1)) ELSE s

\* strings.TrimSpace
TrimSpace(s) == TrimRight(TrimLeft(s))

LowerOf(c) ==
    CASE c = "Y" -> "y"
      [] c = "E" -> "e"
      [] c = "S" -> "s"
      [] c = "N" -> "n"
      [] c = "O" -> "o"
      [] OTHER -> c

\* strings.ToLower
ToLower(s) == [i \in 1..Len(s) |-> LowerOf(s[i])]

\* ------------------------------------------------------------------- clock

Times ==
    [year : {2024}, month : {1}, day : {1}, hour : {0}, minute : {0},
     second : 0..MaxSecond]

\* time.Time.Format("20060102150405")
FormatIsosec(t) ==
    Pad(t.year, 4) \o Pad(t.month, 2) \o Pad(t.day, 2) \o
    Pad(t.hour, 2) \o Pad(t.minute, 2) \o Pad(t.second, 2)

Ids == {FormatIsosec(t) : t \in Times}

\* -------------------------------------------------------------- filesystem

\* viper.GetString("content.path")
ContentPath == <<"/", "z", "k">>

README == <<"R", "E", "A", "D", "M", "E", ".", "m", "d">>

\* fmt.Sprintf("%v/%v", path, isosec)
WrapperDir(path, isosec) == path \o <<"/">> \o isosec

\* fmt.Sprintf("%v/README.md", wrapperDir)
ZettelPath(wrapperDir) == wrapperDir \o <<"/">> \o README

\* fmt.Sprintf("# %v", isosec)
Heading_Newline(isosec) == <<"#", " ">> \o isosec \o <<"\n">>
Heading(isosec) == <<"#", " ">> \o isosec

\* p is dir itself or lies below it
Under(p, dir) ==
    \/ p = dir
    \/ /\ Len(p) > Len(dir)
       /\ SubSeq(p, 1, Len(dir) + 1) = dir \o <<"/">>

\* os.RemoveAll(wrapperDir): the directory and everything below it. The
\* code discards its result; the removal of the directory the run has just
\* made is modelled as succeeding.
RemoveAll_Dirs_Noop(ds, dir) == ds
RemoveAll_Dirs(ds, dir) == {d \in ds : ~Under(d, dir)}

RemoveAll_Files(fs, dir) ==
    [p \in {q \in DOMAIN fs : ~Under(q, dir)} |-> fs[p]]

OldText == <<"o", "l", "d">>
NewText == <<"n", "o", "t", "e">>

\* The content directory before the run: empty, or holding the zettel of
\* second 0 with its README.md.
OldDir == WrapperDir(ContentPath, FormatIsosec([year |-> 2024, month |-> 1,
              day |-> 1, hour |-> 0, minute |-> 0, second |-> 0]))

InitialDirs == {{}, {OldDir}}

InitialFiles(ds) == [p \in {ZettelPath(d) : d \in ds} |-> OldText]

NoZettel == [Id |-> <<>>, Path |-> <<>>, File |-> <<>>]

\* --------------------------------------------------------------------- git

Unset == "<unset>"

\* What `git config --get` can find for user.name and user.email, per scope.
Configs ==
    [local  : [name : {Unset, "local-name"},  email : {Unset, "local-email"}],
     global : [name : {Unset, "global-name"}, email : {Unset, "global-email"}]]

NoConfig ==
    [local  |-> [name |-> Unset, email |-> Unset],
     global |-> [name |-> Unset, email |-> Unset]]

\* execGitConfig: exit status 1 is ErrNotFound with empty output
ExecGitConfig(c, scope, key) ==
    IF c[scope][key] = Unset
    THEN [out |-> "", err |-> "ErrNotFound"]
    ELSE [out |-> c[scope][key], err |-> "nil"]

localGitConfig(c, key) == ExecGitConfig(c, "local", key)

globalGitConfig(c, key) == ExecGitConfig(c, "global", key)

\* username, userErr := localGitConfig("user.name") and
\* email, emailErr := localGitConfig("user.email")
LocalLookup(c) ==
    [username |-> localGitConfig(c, "name").out,
     userErr  |-> localGitConfig(c, "name").err,
     email    |-> localGitConfig(c, "email").out,
     emailErr |-> localGitConfig(c, "email").err]

\* the same two lookups with globalGitConfig
GlobalLookup(c) ==
    [username |-> globalGitConfig(c, "name").out,
     userErr  |-> globalGitConfig(c, "name").err,
     email    |-> globalGitConfig(c, "email").out,
     emailErr |-> globalGitConfig(c, "email").err]

\* username, email and the two errors after the local lookups and, when
\* either of them failed, the global ones
Resolved(c) ==
    IF LocalLookup(c).userErr # "nil" \/ LocalLookup(c).emailErr # "nil"
    THEN GlobalLookup(c)
    ELSE LocalLookup(c)

\* getUserInfo of internal/git: fails when an error is left
getUserInfo(c) ==
    IF Resolved(c).userErr # "nil" \/ Resolved(c).emailErr # "nil"
    THEN [name |-> "", email |-> "", ok |-> FALSE]
    ELSE [name |-> Resolved(c).username, email |-> Resolved(c).email, ok |-> TRUE]

\* the single-file command: fails when a value is empty
InlineUserInfo(c) ==
    IF Resolved(c).username = "" \/ Resolved(c).email = ""
    THEN [name |-> Resolved(c).username, email |-> Resolved(c).email, ok |-> FALSE]
    ELSE [name |-> Resolved(c).username, email |-> Resolved(c).email, ok |-> TRUE]

\* Paths of the worktree status, relative to the repository at "/".
StatusZettel(id) == <<"z", "k", "/">> \o id \o <<"/">> \o README

StatusImage(id) == <<"z", "k", "/">> \o id \o <<"/", "a", ".", "p", "n", "g">>

Unrelated == <<"u", "n", "r", "e", "l", "a", "t", "e", "d", ".", "t", "x", "t">>

StatusPaths(id) == {StatusZettel(id), StatusImage(id), Unrelated}

\* untracked and modified are worktree changes, staged is a change already
\* in the index.
StatusCodes == {"untracked", "modified", "staged"}

\* Every status mapping over the paths: any subset, any code.
StatusMaps(id) ==
    UNION {[ps -> StatusCodes] : ps \in SUBSET StatusPaths(id)}

EmptyStatus == [p \in {} |-> "untracked"]

\* len(changes) == 0
NoChanges_Never(st) == FALSE
NoChanges(st) == Cardinality(DOMAIN st) = 0

\* strings.Contains(changes[i], zettelId)
Matches_Any(path, id) == TRUE
Matches(path, id) == Contains(path, id)

RECURSIVE FirstMatch(_, _)
\* the loop over changes: the first matching key, "" when there is none
FirstMatch(changes, id) ==
    IF changes = <<>> THEN <<>>
    ELSE IF Matches(Head(changes), id) THEN Head(changes)
    ELSE FirstMatch(Tail(changes), id)

\* maps.Keys(status): the keys in any order
KeyOrders(st) ==
    {o \in [1..Cardinality(DOMAIN st) -> DOMAIN st] :
        \A i, j \in DOMAIN o : i # j => o[i] # o[j]}

\* worktree.Add(change): the path enters the index
Stage(st, path) == [p \in (DOMAIN st) \cup {path} |-> IF p = path THEN "staged" ELSE st[p]]

\* what worktree.Commit records: the changes of the index
Staged(st) == {p \in DOMAIN st : st[p] = "staged"}

\* the status once the index is committed
AfterCommit(st) == [p \in (DOMAIN st) \ Staged(st) |-> st[p]]

\* fmt.Sprintf("Add zettel %s", zettelId)
CommitMsg(id) == <<"A", "d", "d", " ", "z", "e", "t", "t", "e", "l", " ">> \o id

\* ------------------------------------------------------------------ stdin

EOF == <<"<EOF>">>

\* Lines reader.ReadString('\n') can return.
Lines ==
    {<<"y", "\n">>, <<"Y", "E", "S", "\n">>, <<" ", "n", " ", "\n">>,
     <<"N", "o", "\n">>, <<"o", "k", "\n">>, <<"\n">>}

IsYes(response) == response = <<"y">> \/ response = <<"y", "e", "s">>

IsNo(response) == response = <<"n">> \/ response = <<"n", "o">>

\* ---------------------------------------------------------------- messages

\* A message: the format's text and the value printed into it.
Msg(text, arg) == [text |-> text, arg |-> arg]

NoErr == Msg("", <<>>)

\* the error of a failed system or library call
CallErr(call) == Msg(call, <<>>)

\* ------------------------------------------------------------- invocations

\* Two processes that call createZettel on the same content path.
Procs == {1, 2}

\* createZettel before its first statement: no identifier, no file, no
\* error; made, mkdirs and rolled record what the invocation has done.
NewInvocation ==
    [pc |-> "isosec", isosec |-> <<>>, handle |-> "none", err |-> "nil",
     made |-> FALSE, mkdirs |-> 0, rolled |-> FALSE]

NoInvocations == [p \in Procs |-> NewInvocation]

\* ------------------------------------------------------------------- state

VARIABLES
    impl,        \* "flag" or "prompt": the build that runs
    fpush,       \* the --push flag
    cfgSet,      \* viper.IsSet("content.path")
    rootState,   \* the content path: "ok", "missing" or "readonly"
    inRepo,      \* a git repository encloses the content path
    dirs,        \* directories under the content path
    files,       \* path -> content of the files under the content path
    dirs0,       \* dirs when the run started
    files0,      \* files when the run started
    isosec,      \* createZettel's identifier
    handle,      \* zettelFile: "none", "open", "closed"
    zettel,      \* the Zettel createZettel returned
    editor,      \* editCmd.Run(): "none", "ok", "spawn", "nonzero"
    asked,       \* prompts printed by getConfirmation
    response,    \* getConfirmation's last answer, trimmed and lower-cased
    cfg,         \* the git configuration the lookups saw
    username,    \* resolved identity
    email,
    status,      \* the repository's status
    status0,     \* the status mapping worktree.Status() returned
    change,      \* the selected path
    head,        \* commits made on the branch
    remote,      \* commits origin has received
    ops,         \* the git steps performed so far, each with its outcome
    pc,          \* position in Run
    exitCode,    \* -1 while running
    err,         \* the fatal message, NoErr when there is none
    inv          \* the createZettel invocations that race on one content path

vars ==
    <<impl, fpush, cfgSet, rootState, inRepo, dirs, files, dirs0, files0,
      isosec, handle, zettel, editor, asked, response, cfg, username, email, status,
      status0, change, head, remote, ops, pc, exitCode, err, inv>>

envVars == <<impl, fpush, cfgSet, rootState, inRepo, dirs0, files0, inv>>

fsVars == <<dirs, files>>

createVars == <<isosec, handle, zettel>>

stdinVars == <<asked, response>>

gitVars == <<cfg, username, email, status, status0, change, head, remote>>

Init ==
    /\ impl \in {"flag", "prompt"}
    /\ fpush \in (IF impl = "flag" THEN BOOLEAN ELSE {FALSE})
    /\ cfgSet \in BOOLEAN
    /\ rootState \in {"ok", "missing", "readonly"}
    /\ inRepo \in BOOLEAN
    /\ dirs \in (IF rootState = "missing" THEN {{}} ELSE InitialDirs)
    /\ files = InitialFiles(dirs)
    /\ dirs0 = dirs
    /\ files0 = files
    /\ isosec = <<>>
    /\ handle = "none"
    /\ zettel = NoZettel
    /\ editor = "none"
    /\ asked = 0
    /\ response = <<>>
    /\ cfg = NoConfig
    /\ username = ""
    /\ email = ""
    /\ status = EmptyStatus
    /\ status0 = EmptyStatus
    /\ change = <<>>
    /\ head = <<>>
    /\ remote = <<>>
    /\ ops = <<>>
    /\ pc = "config"
    /\ exitCode = -1
    /\ err = NoErr
    /\ inv = NoInvocations

\* log.Fatal, log.Fatalf, log.Fatalln: the message, then os.Exit(1)
Fatal(msg) ==
    /\ pc' = "done"
    /\ exitCode' = 1
    /\ err' = msg

\* Run returns
Return ==
    /\ pc' = "done"
    /\ exitCode' = 0
    /\ err' = NoErr

Goto(label) ==
    /\ pc' = label
    /\ UNCHANGED <<exitCode, err>>

Did(op, ok) == ops' = Append(ops, [op |-> op, ok |-> ok])

\* --------------------------------------------------------------------- Run

\* if !viper.IsSet("content.path") { log.Fatalln(...) }
CheckConfig ==
    /\ pc = "config"
    /\ IF cfgSet
       THEN Goto("stat")
       ELSE Fatal(Msg("zet config: key [content.path] is not set", <<>>))
    /\ UNCHANGED <<envVars, fsVars, createVars, editor, stdinVars, gitVars, ops>>

\* os.Stat(contentPath): only ErrNotExist stops the run
StatContentPath ==
    /\ pc = "stat"
    /\ IF rootState = "missing"
       THEN Fatal(Msg("zet create: %v", <<"s", "t", "a", "t">>))
       ELSE Goto("isosec")
    /\ UNCHANGED <<envVars, fsVars, createVars, editor, stdinVars, gitVars, ops>>

\* createZettel: isosec := generateIsosec()
generateIsosec ==
    /\ pc = "isosec"
    /\ \E t \in Times : isosec' = FormatIsosec(t)
    /\ Goto("mkdir")
    /\ UNCHANGED <<envVars, fsVars, handle, zettel, editor, stdinVars, gitVars, ops>>

\* createZettel: os.Mkdir(wrapperDir, 0777); an error is returned to Run,
\* which ends with log.Fatalf
Mkdir ==
    /\ pc = "mkdir"
    /\ IF rootState = "readonly" \/ WrapperDir(ContentPath, isosec) \in dirs
       THEN /\ Fatal(Msg("zet create: %v", <<"m", "k", "d", "i", "r">>))
            /\ UNCHANGED dirs
       ELSE /\ dirs' = dirs \cup {WrapperDir(ContentPath, isosec)}
            /\ Goto("create")
    /\ UNCHANGED <<envVars, files, createVars, editor, stdinVars, gitVars, ops>>

\* createZettel: os.Create(zettelPath); on an error os.RemoveAll(wrapperDir)
\* and the error is returned to Run, which ends with log.Fatalf
CreateFile ==
    /\ pc = "create"
    /\ \E ok \in BOOLEAN :
        IF ok
        THEN /\ files' = [p \in (DOMAIN files) \cup {ZettelPath(WrapperDir(ContentPath, isosec))} |->
                            IF p = ZettelPath(WrapperDir(ContentPath, isosec)) THEN <<>> ELSE files[p]]
             /\ handle' = "open"
             /\ Goto("write")
             /\ UNCHANGED dirs
        ELSE /\ dirs' = RemoveAll_Dirs(dirs, WrapperDir(ContentPath, isosec))
             /\ files' = RemoveAll_Files(files, WrapperDir(ContentPath, isosec))
             /\ Fatal(Msg("zet create: %v", <<"o", "p", "e", "n">>))
             /\ UNCHANGED handle
    /\ UNCHANGED <<envVars, isosec, zettel, editor, stdinVars, gitVars, ops>>

\* createZettel: zettelFile.WriteString(fmt.Sprintf("# %v", isosec)). The
\* code discards its result; the write is modelled as succeeding.
WriteString ==
    /\ pc = "write"
    /\ files' = [files EXCEPT ![ZettelPath(WrapperDir(ContentPath, isosec))] = @ \o Heading(isosec)]
    /\ Goto("return")
    /\ UNCHANGED <<envVars, dirs, createVars, editor, stdinVars, gitVars, ops>>

\* createZettel: return &zettel, nil, and the deferred zettelFile.Close()
ReturnZettel ==
    /\ pc = "return"
    /\ zettel' = [Id   |-> isosec,
                  Path |-> WrapperDir(ContentPath, isosec),
                  File |-> ZettelPath(WrapperDir(ContentPath, isosec))]
    /\ handle' = "closed"
    /\ Goto("editor")
    /\ UNCHANGED <<envVars, fsVars, isosec, editor, stdinVars, gitVars, ops>>

\* what the editor may leave in the file it was given
Edits(content) == {content, content \o <<"\n">> \o NewText}

\* editCmd.Run() on zettel.File.Name(): the editor cannot be started, exits
\* with a non-zero status, or exits with 0
RunEditor_Ignore ==
    /\ pc = "editor"
    /\ \E outcome \in {"ok", "spawn", "nonzero"} :
        /\ editor' = outcome
        /\ IF outcome = "spawn"
           THEN UNCHANGED files
           ELSE \E text \in Edits(files[zettel.File]) :
                    files' = [files EXCEPT ![zettel.File] = text]
        /\ Goto(IF impl = "flag" THEN "flag" ELSE "open")
    /\ UNCHANGED <<envVars, dirs, createVars, stdinVars, gitVars, ops>>

RunEditor ==
    /\ pc = "editor"
    /\ \E outcome \in {"ok", "spawn", "nonzero"} :
        /\ editor' = outcome
        /\ IF outcome = "spawn"
           THEN UNCHANGED files
           ELSE \E text \in Edits(files[zettel.File]) :
                    files' = [files EXCEPT ![zettel.File] = text]
        /\ IF outcome = "ok"
           THEN Goto(IF impl = "flag" THEN "flag" ELSE "open")
           ELSE Fatal(Msg("zet edit: %v", <<"e", "x", "e", "c">>))
    /\ UNCHANGED <<envVars, dirs, createVars, stdinVars, gitVars, ops>>

\* cmd.Flags().GetBool("push"); if !fpush { return }
GetPushFlag ==
    /\ pc = "flag"
    /\ impl = "flag"
    /\ IF fpush THEN Goto("open") ELSE Return
    /\ UNCHANGED <<envVars, fsVars, createVars, editor, stdinVars, gitVars, ops>>

\* git.GetRepository(zettel.Path) / git.PlainOpenWithOptions with
\* DetectDotGit: without a repository Run returns
OpenRepository_Fatal ==
    /\ pc = "open"
    /\ Did("open", inRepo)
    /\ IF inRepo
       THEN Goto(IF impl = "flag" THEN "identity" ELSE "confirm")
       ELSE Fatal(CallErr("repository does not exist"))
    /\ UNCHANGED <<envVars, fsVars, createVars, editor, stdinVars, gitVars>>

OpenRepository ==
    /\ pc = "open"
    /\ Did("open", inRepo)
    /\ IF inRepo
       THEN Goto(IF impl = "flag" THEN "identity" ELSE "confirm")
       ELSE Return
    /\ UNCHANGED <<envVars, fsVars, createVars, editor, stdinVars, gitVars>>

\* getConfirmation: one turn of the loop. The prompt, ReadString('\n'),
\* log.Fatal on a read error, then the trimmed and lower-cased answer.
getConfirmation ==
    /\ pc = "confirm"
    /\ impl = "prompt"
    /\ asked' = asked + 1
    /\ \E line \in (IF asked < MaxPrompts THEN Lines \cup {EOF} ELSE {EOF}) :
        IF line = EOF
        THEN /\ Fatal(CallErr("EOF"))
             /\ UNCHANGED response
        ELSE /\ response' = ToLower(TrimSpace(line))
             /\ IF IsYes(ToLower(TrimSpace(line)))
                THEN Goto("identity")
                ELSE IF IsNo(ToLower(TrimSpace(line)))
                THEN Return
                ELSE Goto("confirm")
    /\ UNCHANGED <<envVars, fsVars, createVars, editor, gitVars, ops>>

\* --------------------------------------------------------------- publishing

\* handlePushZettelErr(err) of internal/git: log.Fatal(err) unless err is nil
handlePushZettelErr_Ignore(ok, call, next) == Goto(next)
handlePushZettelErr(ok, call, next) == IF ok THEN Goto(next) ELSE Fatal(CallErr(call))

\* checkIfError(err) of cmd: log.Fatal(err) unless err is nil
checkIfError(ok, call, next) == IF ok THEN Goto(next) ELSE Fatal(CallErr(call))

\* the check after a library call, in the build that runs
Check(ok, call, next) ==
    IF impl = "flag"
    THEN handlePushZettelErr(ok, call, next)
    ELSE checkIfError(ok, call, next)

\* the end of a publish that went through: Run prints the commit and returns
Finish(next) == IF next = "done" THEN Return ELSE Goto(next)

\* PushZettel: getUserInfo() and handlePushZettelErr; in the single-file
\* command the same lookups and log.Fatal on an empty value
ResolveIdentity ==
    /\ pc = "identity"
    /\ \E c \in Configs :
        /\ cfg' = c
        /\ username' = (IF impl = "flag" THEN getUserInfo(c) ELSE InlineUserInfo(c)).name
        /\ email' = (IF impl = "flag" THEN getUserInfo(c) ELSE InlineUserInfo(c)).email
        /\ Did("identity", (IF impl = "flag" THEN getUserInfo(c) ELSE InlineUserInfo(c)).ok)
        /\ IF impl = "flag"
           THEN handlePushZettelErr(getUserInfo(c).ok, "git: username and email not found", "worktree")
           ELSE IF InlineUserInfo(c).ok
                THEN Goto("worktree")
                ELSE Fatal(Msg("git config: missing user.name and user.email", <<>>))
    /\ UNCHANGED <<envVars, fsVars, createVars, editor, stdinVars,
                   status, status0, change, head, remote>>

\* repo.Worktree()
Worktree ==
    /\ pc = "worktree"
    /\ \E ok \in BOOLEAN :
        /\ Did("worktree", ok)
        /\ Check(ok, "worktree", "status")
    /\ UNCHANGED <<envVars, fsVars, createVars, editor, stdinVars, gitVars>>

\* worktree.Status(): the mapping of the repository's changed paths
ReadStatus ==
    /\ pc = "status"
    /\ \E ok \in BOOLEAN :
        /\ Did("status", ok)
        /\ IF ok
           THEN \E st \in StatusMaps(zettel.Id) : status' = st /\ status0' = st
           ELSE UNCHANGED <<status, status0>>
        /\ Check(ok, "status", "changes")
    /\ UNCHANGED <<envVars, fsVars, createVars, editor, stdinVars,
                   cfg, username, email, change, head, remote>>

\* changes := maps.Keys(status); if len(changes) == 0: PushZettel returns
\* the error and Run ends in checkIfError; log.Fatal in the single-file command
CheckChanges ==
    /\ pc = "changes"
    /\ Did("changes", ~NoChanges(status0))
    /\ IF NoChanges(status0)
       THEN Fatal(Msg("git: no changes detected", <<>>))
       ELSE Goto("match")
    /\ UNCHANGED <<envVars, fsVars, createVars, editor, stdinVars, gitVars>>

\* the loop that finds the change of this zettel, and if change == ""
FindChange ==
    /\ pc = "match"
    /\ \E changes \in KeyOrders(status0) :
        /\ change' = FirstMatch(changes, zettel.Id)
        /\ Did("match", FirstMatch(changes, zettel.Id) # <<>>)
        /\ IF FirstMatch(changes, zettel.Id) = <<>>
           THEN Fatal(Msg(IF impl = "flag"
                          THEN "git: no changes detected for zettel %s"
                          ELSE "git: detected no changes for zettel %s", zettel.Id))
           ELSE Goto("add")
    /\ UNCHANGED <<envVars, fsVars, createVars, editor, stdinVars,
                   cfg, username, email, status, status0, head, remote>>

\* worktree.Add(change)
Add ==
    /\ pc = "add"
    /\ \E ok \in BOOLEAN :
        /\ Did("add", ok)
        /\ status' = (IF ok THEN Stage(status, change) ELSE status)
        /\ Check(ok, "add", "commit")
    /\ UNCHANGED <<envVars, fsVars, createVars, editor, stdinVars,
                   cfg, username, email, status0, change, head, remote>>

\* worktree.Commit(commitMsg, &git.CommitOptions{Author: ...})
Commit ==
    /\ pc = "commit"
    /\ \E ok \in BOOLEAN :
        /\ Did("commit", ok)
        /\ head' = (IF ok
                    THEN Append(head, [msg   |-> CommitMsg(zettel.Id),
                                       name  |-> username,
                                       email |-> email,
                                       paths |-> Staged(status)])
                    ELSE head)
        /\ status' = (IF ok THEN AfterCommit(status) ELSE status)
        /\ Check(ok, "commit", IF impl = "flag" THEN "auth" ELSE "commitobj")
    /\ UNCHANGED <<envVars, fsVars, createVars, editor, stdinVars,
                   cfg, username, email, status0, change, remote>>

\* ssh.DefaultAuthBuilder("git")
AuthMethod ==
    /\ pc = "auth"
    /\ \E ok \in BOOLEAN :
        /\ Did("auth", ok)
        /\ Check(ok, "auth", "push")
    /\ UNCHANGED <<envVars, fsVars, createVars, editor, stdinVars, gitVars>>

\* repo.Push(&git.PushOptions{RemoteName: "origin", Auth: authMethod})
Push ==
    /\ pc = "push"
    /\ \E ok \in BOOLEAN :
        /\ Did("push", ok)
        /\ remote' = (IF ok THEN head ELSE remote)
        /\ IF ok
           THEN Finish(IF impl = "flag" THEN "commitobj" ELSE "done")
           ELSE Check(FALSE, "push", "done")
    /\ UNCHANGED <<envVars, fsVars, createVars, editor, stdinVars,
                   cfg, username, email, status, status0, change, head>>

\* repo.CommitObject(commit)
CommitObject ==
    /\ pc = "commitobj"
    /\ \E ok \in BOOLEAN :
        /\ Did("commitobj", ok)
        /\ IF ok
           THEN Finish(IF impl = "flag" THEN "done" ELSE "auth")
           ELSE Check(FALSE, "commitobj", "done")
    /\ UNCHANGED <<envVars, fsVars, createVars, editor, stdinVars, gitVars>>

Next ==
    \/ CheckConfig
    \/ StatContentPath
    \/ generateIsosec
    \/ Mkdir
    \/ CreateFile
    \/ WriteString
    \/ ReturnZettel
    \/ RunEditor
    \/ GetPushFlag
    \/ OpenRepository
    \/ getConfirmation
    \/ ResolveIdentity
    \/ Worktree
    \/ ReadStatus
    \/ CheckChanges
    \/ FindChange
    \/ Add
    \/ Commit
    \/ AuthMethod
    \/ Push
    \/ CommitObject

Spec == Init /\ [][Next]_vars

\* ------------------------------------------------ concurrent createZettel

\* what two racing createZettel calls leave alone
raceFrame ==
    <<impl, fpush, cfgSet, rootState, inRepo, dirs0, files0, createVars,
      editor, stdinVars, gitVars, ops, pc, exitCode, err>>

\* Two runs have reached createZettel(contentPath) on a content path that
\* exists: writable or not, empty or holding an older zettel.
RaceInit ==
    /\ impl = "flag"
    /\ fpush = FALSE
    /\ cfgSet = TRUE
    /\ rootState \in {"ok", "readonly"}
    /\ inRepo = FALSE
    /\ dirs \in InitialDirs
    /\ files = InitialFiles(dirs)
    /\ dirs0 = dirs
    /\ files0 = files
    /\ isosec = <<>>
    /\ handle = "none"
    /\ zettel = NoZettel
    /\ editor = "none"
    /\ asked = 0
    /\ response = <<>>
    /\ cfg = NoConfig
    /\ username = ""
    /\ email = ""
    /\ status = EmptyStatus
    /\ status0 = EmptyStatus
    /\ change = <<>>
    /\ head = <<>>
    /\ remote = <<>>
    /\ ops = <<>>
    /\ pc = "isosec"
    /\ exitCode = -1
    /\ err = NoErr
    /\ inv = NoInvocations

\* wrapperDir of invocation p
InvDir(p) == WrapperDir(ContentPath, inv[p].isosec)

\* zettelPath of invocation p
InvFile(p) == ZettelPath(InvDir(p))

\* createZettel in p: isosec := generateIsosec()
RaceGenerateIsosec(p) ==
    /\ inv[p].pc = "isosec"
    /\ \E t \in Times :
        inv' = [inv EXCEPT ![p] = [@ EXCEPT !.isosec = FormatIsosec(t), !.pc = "mkdir"]]
    /\ UNCHANGED <<fsVars, raceFrame>>

\* createZettel in p: os.Mkdir(wrapperDir, 0777) and `return nil, err`
RaceMkdir_Rollback(p) ==
    /\ inv[p].pc = "mkdir"
    /\ IF rootState = "readonly" \/ InvDir(p) \in dirs
       THEN /\ inv' = [inv EXCEPT ![p] = [@ EXCEPT !.err = "mkdir", !.pc = "done",
                                                    !.mkdirs = @ + 1]]
            /\ dirs' = RemoveAll_Dirs(dirs, InvDir(p))
            /\ files' = RemoveAll_Files(files, InvDir(p))
       ELSE /\ inv' = [inv EXCEPT ![p] = [@ EXCEPT !.made = TRUE, !.pc = "create",
                                                    !.mkdirs = @ + 1]]
            /\ dirs' = dirs \cup {InvDir(p)}
            /\ UNCHANGED files
    /\ UNCHANGED raceFrame

RaceMkdir(p) ==
    /\ inv[p].pc = "mkdir"
    /\ IF rootState = "readonly" \/ InvDir(p) \in dirs
       THEN /\ inv' = [inv EXCEPT ![p] = [@ EXCEPT !.err = "mkdir", !.pc = "done",
                                                    !.mkdirs = @ + 1]]
            /\ UNCHANGED fsVars
       ELSE /\ inv' = [inv EXCEPT ![p] = [@ EXCEPT !.made = TRUE, !.pc = "create",
                                                    !.mkdirs = @ + 1]]
            /\ dirs' = dirs \cup {InvDir(p)}
            /\ UNCHANGED files
    /\ UNCHANGED raceFrame

\* createZettel in p: os.Create(zettelPath), which needs the directory
RaceCreate(p) ==
    /\ inv[p].pc = "create"
    /\ \E ok \in (IF InvDir(p) \in dirs THEN BOOLEAN ELSE {FALSE}) :
        IF ok
        THEN /\ files' = [q \in (DOMAIN files) \cup {InvFile(p)} |->
                            IF q = InvFile(p) THEN <<>> ELSE files[q]]
             /\ inv' = [inv EXCEPT ![p] = [@ EXCEPT !.handle = "open", !.pc = "write"]]
        ELSE /\ inv' = [inv EXCEPT ![p] = [@ EXCEPT !.err = "open", !.pc = "rollback"]]
             /\ UNCHANGED files
    /\ UNCHANGED <<dirs, raceFrame>>

\* createZettel in p: os.RemoveAll(wrapperDir) and `return nil, err`
RaceRollback(p) ==
    /\ inv[p].pc = "rollback"
    /\ dirs' = RemoveAll_Dirs(dirs, InvDir(p))
    /\ files' = RemoveAll_Files(files, InvDir(p))
    /\ inv' = [inv EXCEPT ![p] = [@ EXCEPT !.rolled = TRUE, !.pc = "done"]]
    /\ UNCHANGED raceFrame

\* createZettel in p: zettelFile.WriteString(fmt.Sprintf("# %v", isosec))
RaceWrite(p) ==
    /\ inv[p].pc = "write"
    /\ files' = [q \in DOMAIN files |->
                    IF q = InvFile(p) THEN files[q] \o Heading(inv[p].isosec) ELSE files[q]]
    /\ inv' = [inv EXCEPT ![p] = [@ EXCEPT !.pc = "return"]]
    /\ UNCHANGED <<dirs, raceFrame>>

\* createZettel in p: return &zettel, nil, and the deferred Close()
RaceReturn(p) ==
    /\ inv[p].pc = "return"
    /\ inv' = [inv EXCEPT ![p] = [@ EXCEPT !.handle = "closed", !.pc = "done"]]
    /\ UNCHANGED <<fsVars, raceFrame>>

RaceNext ==
    \E p \in Procs :
        \/ RaceGenerateIsosec(p)
        \/ RaceMkdir(p)
        \/ RaceCreate(p)
        \/ RaceRollback(p)
        \/ RaceWrite(p)
        \/ RaceReturn(p)

SpecRace == RaceInit /\ [][RaceNext]_vars

\* ------------------------------------------------------------------ claims

\* the step op was performed
HasOp(op) == \E i \in DOMAIN ops : ops[i].op = op

\* the step op was performed and succeeded
OpOk(op) == \E i \in DOMAIN ops : ops[i].op = op /\ ops[i].ok

\* every performance of step b comes after a successful step a
Before(a, b) ==
    \A j \in DOMAIN ops :
        ops[j].op = b => \E i \in 1..(j - 1) : ops[i].op = a /\ ops[i].ok

\* createZettel returned an error to Run
CreateFailed ==
    /\ pc = "done"
    /\ err.text = "zet create: %v"
    /\ err.arg \in {<<"m", "k", "d", "i", "r">>, <<"o", "p", "e", "n">>}

C2_CommitsOnlyMatchedPath ==
    OpOk("commit") =>
        /\ head[1].paths = {change}
        /\ \A p \in (DOMAIN status0) \ {change} :
               p \in DOMAIN status /\ status[p] = status0[p]

\* C3: with an empty status mapping the run ends with the no-changes error
\* and nothing is staged, committed or pushed.
C3_EmptyStatusFails ==
    (OpOk("status") /\ DOMAIN status0 = {}) =>
        /\ \/ pc = "changes"
           \/ /\ pc = "done"
              /\ exitCode = 1
              /\ err = Msg("git: no changes detected", <<>>)
        /\ ~HasOp("match") /\ ~HasOp("add") /\ ~HasOp("commit") /\ ~HasOp("push")
        /\ status = status0
        /\ head = <<>>
        /\ remote = <<>>

C3_Witness ==
    /\ OpOk("status")
    /\ DOMAIN status0 = {}
    /\ pc = "done"
    /\ err.text = "git: no changes detected"

\* the keys of the status mapping that contain the identifier
Matching == {k \in DOMAIN status0 : Contains(k, zettel.Id)}

\* C4: when a key of the status mapping contains the identifier, the path
\* selected is one such key (the only one when there is one); when none
\* does, the run ends with the change-not-found error naming the identifier
\* and nothing is staged.
C4_ChangeMatching ==
    HasOp("match") =>
        IF Matching # {}
        THEN /\ change \in Matching
             /\ Cardinality(Matching) = 1 => Matching = {change}
             /\ change # Unrelated
             /\ OpOk("match")
        ELSE /\ change = <<>>
             /\ pc = "done"
             /\ exitCode = 1
             /\ err.text \in {"git: no changes detected for zettel %s",
                              "git: detected no changes for zettel %s"}
             /\ err.arg = zettel.Id
             /\ ~HasOp("add")
             /\ status = status0

\* the zettel's path is selected from a mapping that also holds unrelated.txt
C4_Witness ==
    /\ OpOk("match")
    /\ Unrelated \in DOMAIN status0
    /\ Matching = {StatusZettel(zettel.Id)}
    /\ change = StatusZettel(zettel.Id)

\* C5: identity resolution falls back field by field: a field missing
\* locally is taken from the global config and a field found locally is kept.
C5_FieldByFieldFallback ==
    HasOp("identity") =>
        /\ (cfg.local.name # Unset /\ cfg.local.email = Unset /\ cfg.global.email # Unset) =>
               (OpOk("identity") /\ username = cfg.local.name /\ email = cfg.global.email)
        /\ (cfg.local.email # Unset /\ cfg.local.name = Unset /\ cfg.global.name # Unset) =>
               (OpOk("identity") /\ username = cfg.global.name /\ email = cfg.local.email)
        /\ (OpOk("identity") /\ cfg.local.name # Unset) => username = cfg.local.name
        /\ (OpOk("identity") /\ cfg.local.email # Unset) => email = cfg.local.email

C7_ConfirmationRead ==
    (pc = "done" /\ editor = "ok" /\ ~fpush /\ inRepo) =>
        /\ asked >= 1
        /\ HasOp("identity") => IsYes(response)
        /\ IsNo(response) => ~HasOp("identity")

\* C8: outside a git repository nothing of the publish phase is performed,
\* and a run that got past the editor ends with exit code 0 and the entry
\* and its README.md on disk.
C8_NoRepositoryIsSuccess ==
    ~inRepo =>
        /\ \A i \in DOMAIN ops : ops[i].op = "open"
        /\ head = <<>> /\ remote = <<>>
        /\ (pc = "done" /\ editor = "ok") =>
               /\ exitCode = 0
               /\ zettel.Path \in dirs
               /\ zettel.File \in DOMAIN files

\* publishing was requested and no repository was found
C8_Witness ==
    /\ ~inRepo
    /\ fpush
    /\ pc = "done"
    /\ ops = <<[op |-> "open", ok |-> FALSE]>>

\* C9: when the editor cannot be started or exits with a non-zero status the
\* run ends with a non-zero exit, the entry stays on disk and no repository
\* lookup or publish step follows.
C9_EditorFailureHalts ==
    editor \in {"spawn", "nonzero"} =>
        /\ pc = "done"
        /\ exitCode = 1
        /\ err.text = "zet edit: %v"
        /\ zettel.Path \in dirs
        /\ zettel.File \in DOMAIN files
        /\ ops = <<>>
        /\ head = <<>> /\ remote = <<>>

\* the editor exited with a non-zero status after saving text
C9_Witness ==
    /\ editor = "nonzero"
    /\ pc = "done"
    /\ files[zettel.File] # <<"#", " ">> \o zettel.Id

\* C10: the publish steps run in one order, each only after the one before
\* it succeeded; after a failed step the run has ended and nothing follows;
\* what earlier steps did stays (the staged path, the local commit).
C10_LinearPublish ==
    /\ Before("identity", "add")
    /\ Before("changes", "add")
    /\ Before("match", "add")
    /\ Before("add", "commit")
    /\ Before("commit", "push")
    /\ HasOp("add") => (DOMAIN status0 # {} /\ Contains(change, zettel.Id))
    /\ \A i \in DOMAIN ops :
           (ops[i].op # "open" /\ ~ops[i].ok) => (i = Len(ops) /\ pc = "done" /\ exitCode = 1)
    /\ (OpOk("add") /\ ~OpOk("commit")) => (change \in DOMAIN status /\ status[change] = "staged")
    /\ OpOk("commit") => (Len(head) = 1 /\ change \in head[1].paths)
    /\ OpOk("push") => remote = head
    /\ (HasOp("push") /\ ~OpOk("push")) => (Len(head) = 1 /\ remote = <<>>)

\* the push failed and the commit is still the branch head
C10_Witness ==
    /\ HasOp("push")
    /\ ~OpOk("push")
    /\ pc = "done"
    /\ Len(head) = 1

\* both invocations have returned and had obtained the same identifier for an
\* entry that did not exist, under a writable content path
Collided ==
    /\ \A p \in Procs : inv[p].pc = "done"
    /\ inv[1].isosec = inv[2].isosec
    /\ rootState = "ok"
    /\ InvDir(1) \notin dirs0

\* invocation p returned its Zettel
Succeeded(p) == inv[p].pc = "done" /\ inv[p].err = "nil"

\* the entry of invocation p is on disk as createZettel leaves it
EntryIntact(p) ==
    /\ InvDir(p) \in dirs
    /\ InvFile(p) \in DOMAIN files
    /\ files[InvFile(p)] = <<"#", " ">> \o inv[p].isosec

\* C11 as stated: of two invocations with the same identifier exactly one
\* creates the entry directory, the other fails at directory creation
\* without a retry and leaves the entry of the first intact.
C11_ExactlyOneCreates ==
    Collided =>
        \E w \in Procs : \A l \in Procs \ {w} :
            /\ inv[w].made
            /\ ~inv[l].made
            /\ inv[l].err = "mkdir"
            /\ inv[l].mkdirs = 1
            /\ ~inv[l].rolled
            /\ Succeeded(w) => EntryIntact(w)

\* C11, amended: two invocations with the same identifier never hold the
\* entry directory together, and exactly one creates it unless a failed
\* README.md creation was rolled back; an invocation whose Mkdir fails calls
\* it once, removes nothing, and the entry of an invocation that succeeded
\* stays as it was left; only an invocation that made the directory rolls back.
C11_OneHolderNoForeignRollback ==
    /\ \A p \in Procs :
        /\ inv[p].mkdirs <= 1
        /\ inv[p].rolled => (inv[p].made /\ inv[p].err = "open")
        /\ inv[p].err = "mkdir" => (~inv[p].made /\ ~inv[p].rolled /\ inv[p].pc = "done")
        /\ Succeeded(p) => EntryIntact(p)
    /\ inv[1].isosec = inv[2].isosec =>
        /\ ~(Succeeded(1) /\ Succeeded(2))
        /\ ~(inv[1].made /\ ~inv[1].rolled /\ inv[2].made /\ ~inv[2].rolled)
    /\ (Collided /\ \A p \in Procs : inv[p].err # "open") =>
        \E w \in Procs : \A l \in Procs \ {w} :
            /\ inv[w].made /\ Succeeded(w)
            /\ ~inv[l].made /\ inv[l].err = "mkdir"

\* one invocation returned its Zettel, the other failed at Mkdir
C11_Witness ==
    /\ Collided
    /\ Succeeded(1)
    /\ EntryIntact(1)
    /\ inv[2].err = "mkdir"
    /\ inv[2].mkdirs = 1

====
